---- MODULE Spec2Model ----
(***************************************************************************)
(* State-machine model of the flags memory game (src/js/game.js, class     *)
(* FlagsofWorld): the card generator with its cross-region fallback, the   *)
(* flip / delayed match check / win machine, and the asynchronous deck     *)
(* generations started by new game, restart and the three selectors.       *)
(* The score layer: the local top-10 list written by saveScore and read by *)
(* the scores page (src/js/scores-display.js), and the remote insert of    *)
(* ScoreService.saveScore (src/unnamed/part_006).                          *)
(*                                                                         *)
(* A flag object {country, flag} is represented by its country (an         *)
(* integer code); the image reference is never read by the game logic.     *)
(***************************************************************************)
EXTENDS Integers, Sequences, FiniteSets, Bags, TLC

(***************************************************************************)
(* Bounds of the model (not program constants).                            *)
(***************************************************************************)
\* Math.random() is drawn from {0/RandDen, ..., (RandDen-1)/RandDen}; one
\* call of shuffleArray uses one such value for all its draws.
RandDen == 2
\* At most this many deck generations (createGameBoard calls) are in flight.
MaxGens == 2
\* At most this many delayed checkMatch callbacks are pending.
MaxTimers == 2
\* The player makes at most this many non-matching attempts per session.
MaxMiss == 1
\* The player opens an attempt with one of the MaxFirst lowest face-down cards
\* and, when the attempt is not a match, closes it with one of the MaxWrong
\* lowest face-down cards of another country.  Clicks that flipCard rejects
\* are not restricted.
MaxFirst == 1
MaxWrong == 1
\* The clock display is followed up to this many seconds.
MaxTime == 1
\* The player clicks at most this many times while a generation is in flight.
MaxBusyClicks == 2
\* The player uses the selectors and the two buttons at most this many times.
MaxCommands == 1
\* At most this many scores are submitted to the local list.
MaxSubmits == 11
\* The remote table is followed up to this many rows.
MaxRemote == 2
\* The rate limit is followed up to this many rows of one user.
MaxRateRows == 6
\* At most this many remote reads of the score service are in flight.
MaxFetches == 1
\* At most this many loads of the scores page are in flight.
MaxLoads == 2
\* At most this many auth callbacks of the scores page are pending.
MaxCallbacks == 1
\* The scores page is followed with at most this many rows in the remote table.
MaxPageRows == 1
\* shuffleArray is followed on arrays of at most this many elements.
MaxShuffleLen == 4
\* presenceService.initialize() is called at most this many times.
MaxInits == 2
\* At most this many setPresence calls are suspended at once.
MaxPresenceCalls == 3

(***************************************************************************)
(* The flag data source: dist/flags_<continent>.json, one document per     *)
(* continent, a mapping region key -> list of flags in key order.  The     *)
(* documents are inputs of the program; these are the ones explored.       *)
(***************************************************************************)
Continents == {"africa", "europe", "asia", "america"}
Difficulties == {"easy", "medium", "hard"}

FlagData ==
    [ africa  |-> << [key |-> "northern", flags |-> <<1, 2, 3, 4, 5, 6>>],
                     [key |-> "southern", flags |-> <<7, 8>>] >>,
      europe  |-> << [key |-> "western",  flags |-> <<11, 12, 13, 14, 15, 16>>],
                     [key |-> "eastern",  flags |-> <<17, 18, 19, 20, 21, 22>>] >>,
      asia    |-> << [key |-> "eastern",  flags |-> <<25>>],
                     [key |-> "western",  flags |-> <<26>>] >>,
      america |-> << [key |-> "northern-america", flags |-> <<31, 32>>],
                     [key |-> "central",  flags |-> <<33, 34, 35, 36>>],
                     [key |-> "south",    flags |-> <<37, 38, 39, 40, 41, 42>>] >> ]

RegionKeys(c) == {FlagData[c][i].key : i \in 1..Len(FlagData[c])}

(***************************************************************************)
(* Pure helpers of the card generator.                                     *)
(***************************************************************************)
Min(a, b) == IF a < b THEN a ELSE b

\* Array.prototype.slice(0, n)
Slice(s, n) == SubSeq(s, 1, Min(n, Len(s)))

\* getDifficultySettings().pairs
Pairs(d) == CASE d = "easy" -> 6 [] d = "medium" -> 8 [] d = "hard" -> 10

\* Concatenation of the flag lists of the regions that satisfy keep, in key order
\* (Object.values(flags).flat() and the for-in loop of the fallback).
RECURSIVE CollectFlags(_, _, _)
CollectFlags(doc, i, keep) ==
    IF i > Len(doc) THEN <<>>
    ELSE (IF doc[i].key \in keep THEN doc[i].flags ELSE <<>>)
         \o CollectFlags(doc, i + 1, keep)

\* getFlags() after the fetch resolved: the list for this.region
GetFlags(file, reg) ==
    IF reg = "all" THEN CollectFlags(FlagData[file], 1, RegionKeys(file))
    ELSE CollectFlags(FlagData[file], 1, {reg})

\* Mutant of OtherFlags: the selected region is not left out
OtherFlagsAll(file, reg) == CollectFlags(FlagData[file], 1, RegionKeys(file))

\* getAdditionalFlagsFromContinent: flags of every region whose key is not this.region
OtherFlags(file, reg) == CollectFlags(FlagData[file], 1, RegionKeys(file) \ {reg})

Swap(s, i, j) == [s EXCEPT ![i] = s[j], ![j] = s[i]]

\* The Fisher-Yates loop of shuffleArray from 0-based index i = p - 1 down to 1;
\* rnd[p] / RandDen is the value Math.random() returns for that iteration.
RECURSIVE FisherYates(_, _, _)
FisherYates(shuffled, p, rnd) ==
    IF p <= 1 THEN shuffled
    ELSE LET j == (rnd[p] * p) \div RandDen
         IN FisherYates(Swap(shuffled, p, j + 1), p - 1, rnd)

ShuffleArray(array, rnd) == FisherYates(array, Len(array), rnd)

\* Mutant of ShuffleTarget: the loop swaps the elements of the argument itself
ShuffleTargetInput(arg, fresh) == arg

\* const shuffled = [...array]: the loop works on a new array
ShuffleTarget(arg, fresh) == fresh

\* The random streams explored: one value for every draw of a call.
Streams == 0..(RandDen - 1)
Stream(k) == [p \in 1..24 |-> k]

\* cardPairs.push(flag, flag) for each flag of flagsToUse
CardPairs(flagsToUse) ==
    [i \in 1..(2 * Len(flagsToUse)) |-> flagsToUse[(i + 1) \div 2]]

\* generateCards from "availableFlags = this.shuffleArray(availableFlags)" on
BuildDeck(availableFlags, pairs, k1, k2) ==
    LET flagsToUse == Slice(ShuffleArray(availableFlags, Stream(k1)), pairs)
    IN ShuffleArray(CardPairs(flagsToUse), Stream(k2))

\* shuffledFlags.slice(0, neededCount) of getAdditionalFlagsFromContinent
AdditionalFlags(file, reg, neededCount, k) ==
    Slice(ShuffleArray(OtherFlags(file, reg), Stream(k)), neededCount)


(***************************************************************************)
(* State.                                                                  *)
(***************************************************************************)
VARIABLES
    continent,      \* this.continent
    difficulty,     \* this.difficulty
    region,         \* this.region
    regionOptions,  \* continent whose region keys the region <select> lists, or "none"
    cards,          \* this.cards: the countries of the deck, by index
    board,          \* the card elements of #game-board: [country, flipped, matched]
    flippedCards,   \* this.flippedCards: [index, country, attached]; attached = the
                    \* element is still a child of #game-board
    matchedPairs,   \* this.matchedPairs
    moves,          \* this.moves
    gameStarted,    \* this.gameStarted
    timer,          \* this.timer # null (the handle of the interval of startTimer)
    intervals,      \* the number of setInterval timers of startTimer that are live
    timeShown,      \* this.timeElement.textContent, in seconds
    modalShown,     \* nameModal.style.display = 'block'
    modalFinal,     \* <<modalFinalMoves, modalFinalTime>> as last written by gameWon
    timers,         \* number of pending setTimeout(() => this.checkMatch(), 1000)
    gens,           \* createGameBoard calls whose generateCards is suspended on a fetch
    regionFetches,  \* updateRegionSelector calls suspended on their fetch
    winFetches,     \* gameWon calls suspended in populateCountryDropdown
    lastGen,        \* history: what the generation that built the installed deck did
    won,            \* history: gameWon() was called since the last resetGame()
    sessionMatched, \* history: board positions marked matched since the last resetGame()
    busyClicks,     \* history: accepted clicks since the last generation was started
    commands,       \* history: selector changes and button clicks so far
    random,         \* numerator of the value Math.random() returns in this run
    staleTimers,    \* history: pending checkMatch timeouts scheduled before the last
                    \* resetGame() (timeouts of equal delay fire in scheduling order)
    localStorage,   \* window.localStorage: key -> parsed JSON value
    submitted,      \* history: the bag of all records passed to saveScore
    remoteScores,   \* rows of the remote table 'scores'
    saveResult,     \* how the last ScoreService.saveScore call ended
    insertAttempt,  \* history: the user_id of the remote insert the last score
                    \* submission attempted, "none" when it attempted none
    wonSession,     \* history: moves, time and settings at the last gameWon()
    currentUser,    \* authService.currentUser: a user id, or "none" for null
    isAuthenticated, \* authService.isAuthenticated
    authResult,     \* how the last AuthService.initializeSession call ended
    signOutResult,  \* how the last AuthService.signOut call ended
    authNotified,   \* history: the state of the last notifyAuthStateChange and
                    \* the number of listeners it called
    now,            \* the clock, in milliseconds
    acceptedAt,     \* history: acceptedAt[i] = the clock when row i was accepted
    globalScoresCache, \* scoreService.globalScoresCache: cache key -> entry
    userScoresCache,   \* scoreService.userScoresCache: an entry or NoCache
    fetches,        \* remote reads of the score service that are in flight
    fetchResult,    \* what the last fetchGlobalScores/fetchUserScores returned
    currentScoreType, \* scores page: "personal" or "global"
    activeContinent,  \* scores page: the tab that is active
    shown,          \* scores page: per continent, the list element
    loads,          \* scores page: loads of remote scores that are in flight
    authListeners,  \* callbacks the scores page registered with the auth service
    displayInits,   \* auth callbacks of the scores page that have not run yet
    arrays,         \* the arrays of a call of shuffleArray: "array" is the
                    \* argument, "shuffled" the array the function creates
    shuffleInput,   \* history: the argument as it was when shuffleArray was called
    shuffleRet,     \* the array shuffleArray returned, "none" before it returns
    isInitialized,  \* presenceService.isInitialized
    channel,        \* presenceService.channel: "null", "live" (subscribed) or
                    \* "removed" (passed to supabase.removeChannel)
    subscriptions,  \* the number of channels the presence service subscribed and
                    \* has not removed
    heartbeatInterval, \* presenceService.heartbeatInterval # null
    heartbeats,     \* the number of setInterval timers of startHeartbeat that are live
    presenceListeners, \* callbacks the presence service registered with the auth service
    pendingInits,   \* initialize() calls suspended on their import()
    presenceInits,  \* history: the number of initialize() calls so far
    presenceCalls,  \* setPresence calls suspended on their import(), in call order:
                    \* [isOnline, cleanup]; cleanup = the call cleanup() awaits
    presenceRow,    \* the user_id of the row of table presence whose session_id is
                    \* this.sessionId, "none" when there is no such row
    remoteUid       \* auth.uid() of the requests of this browser: a user id, or
                    \* "none" for NULL (no session)

settingVars == <<continent, difficulty, region, regionOptions>>
sessionVars == <<flippedCards, matchedPairs, moves, gameStarted, timer, intervals, timeShown,
                 won, sessionMatched>>
modalVars == <<modalShown, modalFinal>>
deckVars == <<cards, board, lastGen>>
asyncVars == <<timers, gens, regionFetches, winFetches>>
boundVars == <<busyClicks, commands, random>>
scoreVars == <<localStorage, submitted, remoteScores, saveResult, insertAttempt>>
authVars == <<currentUser, isAuthenticated, authResult, signOutResult, authNotified>>
cacheVars == <<globalScoresCache, userScoresCache>>
fetchVars == <<fetches, fetchResult>>
pageVars == <<currentScoreType, activeContinent, shown, loads, authListeners>>
shuffleVars == <<arrays, shuffleInput, shuffleRet>>
presenceLocal == <<isInitialized, channel, subscriptions, heartbeatInterval, heartbeats,
                   presenceListeners, pendingInits, presenceInits>>
presenceVars == <<presenceLocal, presenceCalls, presenceRow, remoteUid>>
otherVars == <<shuffleVars, presenceVars>>
serviceVars == <<authVars, cacheVars, fetchVars, now, acceptedAt, pageVars, displayInits,
                 otherVars>>
vars == <<settingVars, sessionVars, modalVars, deckVars, asyncVars, boundVars,
          staleTimers, scoreVars, serviceVars, wonSession>>

\* What the session shows and is played with: the values a score is made of
SessionRecord ==
    [moves |-> moves, time |-> timeShown, difficulty |-> difficulty,
     region |-> region, continent |-> continent]

\* The constructor of AuthService
AuthConstructed ==
    /\ currentUser = "none"
    /\ isAuthenticated = FALSE
    /\ authResult = "none"
    /\ signOutResult = "none"
    /\ authNotified = [user |-> "none", isAuthenticated |-> FALSE, listeners |-> 0 - 1]

\* One hour, in milliseconds (INTERVAL '1 hour')
Hour == 60 * 60 * 1000

\* What the clock shows when the page is loaded
ClockStart == Hour

\* this.userScoresCache = null
NoCache == [data |-> <<>>, timestamp |-> 0 - 1]

NoResult == [kind |-> "none", user |-> "none", outcome |-> "none", data |-> <<>>,
             startCount |-> 0]

\* new ScoreService(): empty caches, nothing in flight
ScoreServiceConstructed ==
    /\ globalScoresCache = <<>>
    /\ userScoresCache = NoCache
    /\ fetches = {}
    /\ fetchResult = NoResult

\* The tabs of the scores page that are followed
PageContinents == {"africa", "asia"}

\* scores-display.js before DOMContentLoaded: let currentScoreType = 'personal',
\* the africa tab active, empty hidden lists, no listener registered
PageConstructed ==
    /\ currentScoreType = "personal"
    /\ activeContinent = "africa"
    /\ shown = [c \in PageContinents |-> [visible |-> FALSE, items |-> <<>>]]
    /\ loads = {}
    /\ authListeners = 0
    /\ displayInits = 0

\* new PresenceService(), and a browser that holds no session
PresenceConstructed ==
    /\ isInitialized = FALSE
    /\ channel = "null"
    /\ subscriptions = 0
    /\ heartbeatInterval = FALSE
    /\ heartbeats = 0
    /\ presenceListeners = 0
    /\ pendingInits = 0
    /\ presenceInits = 0
    /\ presenceCalls = <<>>
    /\ presenceRow = "none"
    /\ remoteUid = "none"

\* The services as their modules leave them when loaded
ServicesLoaded ==
    /\ AuthConstructed
    /\ PresenceConstructed
    /\ ScoreServiceConstructed
    /\ PageConstructed
    /\ now = ClockStart
    /\ acceptedAt = <<>>

NoGen == [pairs |-> 0, own |-> <<>>, extra |-> <<>>, notified |-> FALSE,
          fetched |-> FALSE, readOthers |-> FALSE, built |-> FALSE]

\* The fields the constructor sets, before any deck exists
Constructed ==
    /\ cards = <<>>
    /\ board = <<>>
    /\ flippedCards = <<>>
    /\ matchedPairs = 0
    /\ moves = 0
    /\ gameStarted = FALSE
    /\ timer = FALSE
    /\ intervals = 0
    /\ timeShown = 0
    /\ modalShown = FALSE
    /\ modalFinal = <<0, 0>>
    /\ timers = 0
    /\ winFetches = 0
    /\ lastGen = NoGen
    /\ won = FALSE
    /\ sessionMatched = {}
    /\ busyClicks = 0
    /\ staleTimers = 0
    /\ localStorage = <<>>
    /\ submitted = EmptyBag
    /\ remoteScores = <<>>
    /\ saveResult = "none"
    /\ insertAttempt = "none"
    /\ wonSession = [moves |-> 0, time |-> 0, difficulty |-> "none",
                     region |-> "none", continent |-> "none"]
    /\ ServicesLoaded

\* No call of shuffleArray is followed array by array
NoArrays == [a \in {"array", "shuffled"} |-> <<>>]
NothingShuffled ==
    /\ arrays = NoArrays
    /\ shuffleInput = <<>>
    /\ shuffleRet = "none"

\* State after the constructor ran: default settings, empty board, and the
\* constructor's updateRegionSelector() suspended on its fetch.
Init ==
    /\ NothingShuffled
    /\ continent = "africa"
    /\ difficulty = "easy"
    /\ region = "all"
    /\ regionOptions = "none"
    /\ Constructed
    /\ gens = <<>>
    /\ regionFetches = <<"africa">>
    /\ commands = 0
    /\ random \in Streams

(***************************************************************************)
(* Helpers shared by the handlers.                                         *)
(***************************************************************************)
RemoveAt(s, i) == SubSeq(s, 1, i - 1) \o SubSeq(s, i + 1, Len(s))

\* createGameBoard() up to the first await: generateCards reads pairs, getFlags
\* picks the file of this.continent and issues the fetch.
NewGeneration(d, c) ==
    [pairs |-> Pairs(d), file |-> c, pc |-> "getFlags", avail |-> <<>>,
     needed |-> 0, file2 |-> c, notified |-> FALSE, fetched |-> FALSE]

\* renderGameBoard(): one fresh face-down element per card
RenderGameBoard(deck) ==
    [i \in 1..Len(deck) |-> [country |-> deck[i], flipped |-> FALSE, matched |-> FALSE]]

\* The elements held by flippedCards are no longer children of #game-board
Detached(fc) == [i \in 1..Len(fc) |-> [fc[i] EXCEPT !.attached = FALSE]]

\* Mutant of StopTimer: the interval is left running
StopTimerSkipped(t) == t

\* stopTimer(): clearInterval(this.timer); this.timer = null
StopTimer(t) == FALSE

\* clearInterval(this.timer) of stopTimer: the interval whose handle is given up
\* is not live any more
ClearInterval(t, stopped, n) == IF t /\ ~stopped THEN n - 1 ELSE n

\* resetGame()
ResetGame ==
    /\ timer' = StopTimer(timer)
    /\ intervals' = ClearInterval(timer, timer', intervals)
    /\ flippedCards' = <<>>
    /\ matchedPairs' = 0
    /\ moves' = 0
    /\ gameStarted' = FALSE
    /\ timeShown' = 0
    /\ modalShown' = FALSE
    /\ won' = FALSE
    /\ sessionMatched' = {}
    /\ staleTimers' = timers
    /\ UNCHANGED modalFinal

\* startNewGame(): resetGame(); createGameBoard()
StartNewGame(d, c) ==
    /\ Len(gens) < MaxGens
    /\ ResetGame
    /\ gens' = Append(gens, NewGeneration(d, c))
    /\ busyClicks' = 0

\* createGameBoard() after generateCards returned deck: this.cards = deck; render
InstallDeck(g, deck, info) ==
    /\ cards' = deck
    /\ board' = RenderGameBoard(deck)
    /\ flippedCards' = Detached(flippedCards)
    /\ gens' = RemoveAt(gens, g)
    /\ lastGen' = info

(***************************************************************************)
(* Deck generation (generateCards, getFlags, getAdditionalFlagsFromContinent) *)
(***************************************************************************)
\* Mutant of NeedsFallback: <= in place of <
NeedsFallbackOrEqual(availableFlags, pairs) == Len(availableFlags) <= pairs

\* if (availableFlags.length < pairs)
NeedsFallback(availableFlags, pairs) == Len(availableFlags) < pairs

\* The fetch of getFlags settles for generation g (ok = it delivered the document).
\* generateCards continues: either it builds the deck, or it shows the region-mix
\* notification and suspends in getAdditionalFlagsFromContinent.
GetFlagsSettles(g, ok, k1, k2) ==
    /\ g \in 1..Len(gens)
    /\ gens[g].pc = "getFlags"
    /\ LET gen == gens[g]
           availableFlags == IF ok THEN GetFlags(gen.file, region) ELSE <<>>
       IN IF NeedsFallback(availableFlags, gen.pairs)
          THEN /\ gens' = [gens EXCEPT ![g] =
                     [gen EXCEPT !.pc = "additional", !.avail = availableFlags,
                                 !.needed = gen.pairs * 2 - Len(availableFlags),
                                 !.file2 = continent, !.notified = TRUE,
                                 !.fetched = ok]]
               /\ UNCHANGED <<cards, board, lastGen, flippedCards>>
          ELSE InstallDeck(g, BuildDeck(availableFlags, gen.pairs, k1, k2),
                     [pairs |-> gen.pairs, own |-> availableFlags, extra |-> <<>>,
                      notified |-> gen.notified, fetched |-> ok,
                      readOthers |-> FALSE, built |-> TRUE])
    /\ UNCHANGED <<settingVars, matchedPairs, moves, gameStarted, timer, intervals, timeShown,
                   won, sessionMatched, modalVars, timers, regionFetches, winFetches,
                   boundVars, staleTimers, scoreVars, serviceVars, wonSession>>

\* The fetch of getAdditionalFlagsFromContinent settles for generation g.
AdditionalSettles(g, ok, k3, k1, k2) ==
    /\ g \in 1..Len(gens)
    /\ gens[g].pc = "additional"
    /\ LET gen == gens[g]
           additionalFlags ==
               IF ok THEN AdditionalFlags(gen.file2, region, gen.needed, k3) ELSE <<>>
       IN InstallDeck(g, BuildDeck(gen.avail \o additionalFlags, gen.pairs, k1, k2),
                [pairs |-> gen.pairs, own |-> gen.avail, extra |-> additionalFlags,
                 notified |-> gen.notified, fetched |-> gen.fetched,
                 readOthers |-> ok, built |-> TRUE])
    /\ UNCHANGED <<settingVars, matchedPairs, moves, gameStarted, timer, intervals, timeShown,
                   won, sessionMatched, modalVars, timers, regionFetches, winFetches,
                   boundVars, staleTimers, scoreVars, serviceVars, wonSession>>

(***************************************************************************)
(* The flip / match-check / win machine.                                   *)
(***************************************************************************)
InFlight == gens # <<>> \/ regionFetches # <<>>

\* The clicks explored among those flipCard accepts (see MaxFirst, MaxWrong)
FaceDown == {i \in 1..Len(board) : ~board[i].flipped /\ ~board[i].matched}
Lowest(S, n) == {i \in S : Cardinality({j \in S : j < i}) < n}
ClickChoices ==
    IF flippedCards = <<>> THEN Lowest(FaceDown, MaxFirst)
    ELSE LET same == {i \in FaceDown : cards[i] = flippedCards[1].country}
         IN same \cup (IF moves - matchedPairs < MaxMiss
                       THEN Lowest(FaceDown \ same, MaxWrong) ELSE {})

\* Mutant of Rejected: a third card may join two pending ones
RejectedLoose(index) ==
    Len(flippedCards) > 2 \/ board[index].flipped \/ board[index].matched

\* The early return of flipCard
Rejected(index) ==
    Len(flippedCards) >= 2 \/ board[index].flipped \/ board[index].matched

\* Mutant of SecondFlip: every flip counts as a move
AnyFlip(flipped) == Len(flipped) >= 1

\* Mutant of NeedsTimer: every accepted flip starts a timer
NeedsTimerAlways(started) == TRUE

\* if (!this.gameStarted)
NeedsTimer(started) == ~started

\* Mutant of SecondFlip: no flip schedules the check
NoFlip(flipped) == Len(flipped) > 2

\* if (this.flippedCards.length === 2), after the push
SecondFlip(flipped) == Len(flipped) = 2

\* flipCard(cardElement, index): the click handler of board element index
FlipCard(index) ==
    /\ index \in 1..Len(board)
    /\ IF Rejected(index)
       THEN \* return: nothing is written
            /\ UNCHANGED sessionVars
            /\ UNCHANGED asyncVars
            /\ UNCHANGED boundVars
            /\ UNCHANGED <<settingVars, modalVars, deckVars, staleTimers, scoreVars,
                           serviceVars, wonSession>>
       ELSE /\ index \in ClickChoices
            /\ InFlight => busyClicks < MaxBusyClicks
            /\ timers < MaxTimers
            /\ IF NeedsTimer(gameStarted)
               THEN \* startTimer(): this.timer = setInterval(...)
                    timer' = TRUE /\ intervals' = intervals + 1
               ELSE UNCHANGED <<timer, intervals>>
            /\ gameStarted' = TRUE
            /\ board' = [board EXCEPT ![index].flipped = TRUE]
            /\ flippedCards' = Append(flippedCards,
                   [index |-> index, country |-> cards[index], attached |-> TRUE])
            /\ IF SecondFlip(flippedCards')
               THEN moves' = moves + 1 /\ timers' = timers + 1
               ELSE UNCHANGED <<moves, timers>>
            /\ busyClicks' = IF InFlight THEN busyClicks + 1 ELSE busyClicks
            /\ UNCHANGED <<settingVars, matchedPairs, timeShown, won, sessionMatched,
                           modalVars, cards, lastGen, gens, regionFetches, winFetches,
                           commands, random, staleTimers, scoreVars, serviceVars, wonSession>>

\* Mutant of IsMatch: the cards are compared by board position
IsMatchByIndex(card1, card2) == card1.index = card2.index

\* if (card1.country === card2.country)
IsMatch(card1, card2) == card1.country = card2.country

\* classList.add('matched') / classList.remove('flipped') on the element of a
\* flippedCards entry; a detached element is not part of the board any more
MarkMatched(b, card) ==
    IF card.attached THEN [b EXCEPT ![card.index].matched = TRUE] ELSE b
Unflip(b, card) ==
    IF card.attached THEN [b EXCEPT ![card.index].flipped = FALSE] ELSE b
OnBoard(card) == IF card.attached THEN {card.index} ELSE {}

\* A pending setTimeout fires and runs checkMatch().  With fewer than two
\* entries in flippedCards the destructured card is undefined and reading
\* its country throws before anything is written.
CheckMatch ==
    /\ timers > 0
    /\ timers' = timers - 1
    /\ staleTimers' = IF staleTimers > 0 THEN staleTimers - 1 ELSE 0
    /\ IF Len(flippedCards) < 2
       THEN UNCHANGED <<flippedCards, matchedPairs, board, timer, intervals, modalFinal,
                        winFetches, won, sessionMatched, wonSession>>
       ELSE LET card1 == flippedCards[1]
                card2 == flippedCards[2]
            IN /\ flippedCards' = <<>>
               /\ IF IsMatch(card1, card2)
                  THEN /\ board' = MarkMatched(MarkMatched(board, card1), card2)
                       /\ sessionMatched' =
                              sessionMatched \cup OnBoard(card1) \cup OnBoard(card2)
                       /\ matchedPairs' = matchedPairs + 1
                       /\ IF matchedPairs + 1 = Pairs(difficulty)
                          THEN \* gameWon() up to its await
                               /\ timer' = StopTimer(timer)
                               /\ intervals' = ClearInterval(timer, timer', intervals)
                               /\ modalFinal' = <<moves, timeShown>>
                               /\ winFetches' = winFetches + 1
                               /\ won' = TRUE
                               /\ wonSession' = SessionRecord
                          ELSE UNCHANGED <<timer, intervals, modalFinal, winFetches, won,
                                           wonSession>>
                  ELSE /\ board' = Unflip(Unflip(board, card1), card2)
                       /\ UNCHANGED <<matchedPairs, timer, intervals, modalFinal, winFetches,
                                      won, sessionMatched, wonSession>>
    /\ UNCHANGED <<settingVars, moves, gameStarted, timeShown, modalShown, cards,
                   lastGen, gens, regionFetches, boundVars, scoreVars, serviceVars>>

\* gameWon() after populateCountryDropdown() settled: the modal opens
WinFetchSettles ==
    /\ winFetches > 0
    /\ winFetches' = winFetches - 1
    /\ modalShown' = TRUE
    /\ UNCHANGED <<settingVars, sessionVars, modalFinal, deckVars, timers, gens,
                   regionFetches, boundVars, staleTimers, scoreVars, serviceVars, wonSession>>

\* click on .close-modal, or on the modal outside its content
CloseModal ==
    /\ modalShown
    /\ modalShown' = FALSE
    /\ UNCHANGED <<settingVars, sessionVars, modalFinal, deckVars, asyncVars, boundVars,
                   staleTimers, scoreVars, serviceVars, wonSession>>

\* The setInterval callback of startTimer: the display advances by a second
Tick ==
    /\ intervals > 0
    /\ timeShown < MaxTime
    /\ timeShown' = timeShown + 1
    /\ UNCHANGED <<settingVars, flippedCards, matchedPairs, moves, gameStarted, timer, intervals,
                   won, sessionMatched, modalVars, deckVars, asyncVars, boundVars,
                   staleTimers, scoreVars, serviceVars, wonSession>>

(***************************************************************************)
(* Selectors and buttons (initializeSelectors).                            *)
(***************************************************************************)
\* One more use of a selector or button
Command ==
    commands < MaxCommands /\ commands' = commands + 1 /\ UNCHANGED <<random, scoreVars, serviceVars, wonSession>>

\* 'change' of #difficulty-select
DifficultyChange(value) ==
    /\ Command
    /\ value # difficulty
    /\ difficulty' = value
    /\ StartNewGame(value, continent)
    /\ UNCHANGED <<continent, region, regionOptions, deckVars, timers, regionFetches,
                   winFetches>>

\* 'change' of #region-select: value is one of the listed options
RegionChange(value) ==
    /\ Command
    /\ regionOptions # "none"
    /\ value \in {"all"} \cup RegionKeys(regionOptions)
    /\ value # region
    /\ region' = value
    /\ StartNewGame(difficulty, continent)
    /\ UNCHANGED <<continent, difficulty, regionOptions, deckVars, timers,
                   regionFetches, winFetches>>

\* 'change' of #continent-select up to the await in updateRegionSelector
ContinentChange(value) ==
    /\ Command
    /\ value # continent
    /\ regionFetches = <<>>
    /\ continent' = value
    /\ regionOptions' = "none"
    /\ regionFetches' = Append(regionFetches, value)
    /\ busyClicks' = 0
    /\ UNCHANGED <<difficulty, region, sessionVars, modalVars, deckVars, timers, gens,
                   winFetches, staleTimers>>

\* The fetch of updateRegionSelector settles; the caller (continent handler or
\* constructor) then runs startNewGame().
RegionFetchSettles(ok) ==
    /\ regionFetches # <<>>
    /\ regionFetches' = Tail(regionFetches)
    /\ IF ok
       THEN region' = "all" /\ regionOptions' = Head(regionFetches)
       ELSE UNCHANGED <<region, regionOptions>>
    /\ StartNewGame(difficulty, continent)
    /\ UNCHANGED <<continent, difficulty, deckVars, timers, winFetches, commands, random,
                   scoreVars, serviceVars, wonSession>>

\* click on #new-game-btn
NewGame ==
    /\ Command
    /\ StartNewGame(difficulty, continent)
    /\ UNCHANGED <<settingVars, deckVars, timers, regionFetches, winFetches>>

\* click on #restart-btn: restartGame() up to the await in createGameBoard
RestartGame(k) ==
    /\ Command
    /\ Len(gens) < MaxGens
    /\ ResetGame
    /\ cards' = ShuffleArray(cards, Stream(k))
    /\ gens' = Append(gens, NewGeneration(difficulty, continent))
    /\ busyClicks' = 0
    /\ UNCHANGED <<settingVars, board, lastGen, timers, regionFetches, winFetches>>

(***************************************************************************)
(* Local score list (game.js saveScore, scores-display.js).                *)
(***************************************************************************)
\* highScores.splice(10)
TopN == 10

\* A string of digits and ':' is the sequence of its characters: a digit is its
\* value, ':' is Colon (punctuation collates before the digits).
Colon == 0 - 1

RECURSIVE Digits(_)
Digits(n) == IF n < 10 THEN <<n>> ELSE Digits(n \div 10) \o <<n % 10>>

\* n.toString().padStart(2, '0')
PadStart2(n) == IF n < 10 THEN <<0, n>> ELSE Digits(n)

\* The text the setInterval callback of startTimer writes for elapsed seconds
FormatTime(elapsed) == PadStart2(elapsed \div 60) \o <<Colon>> \o PadStart2(elapsed % 60)

\* a.localeCompare(b) for such strings: negative, zero or positive
RECURSIVE LocaleCompare(_, _)
LocaleCompare(a, b) ==
    IF a = <<>> THEN (IF b = <<>> THEN 0 ELSE 0 - 1)
    ELSE IF b = <<>> THEN 1
    ELSE IF Head(a) # Head(b) THEN (IF Head(a) < Head(b) THEN 0 - 1 ELSE 1)
    ELSE LocaleCompare(Tail(a), Tail(b))

\* (a, b) => a.moves - b.moves || a.time.localeCompare(b.time)
CompareScores(a, b) ==
    IF a.moves - b.moves # 0 THEN a.moves - b.moves ELSE LocaleCompare(a.time, b.time)

\* Array.prototype.sort with that comparator (a stable sort)
RECURSIVE InsertScore(_, _)
InsertScore(sorted, x) ==
    IF sorted = <<>> THEN <<x>>
    ELSE IF CompareScores(Head(sorted), x) <= 0
         THEN <<Head(sorted)>> \o InsertScore(Tail(sorted), x)
         ELSE <<x>> \o sorted
RECURSIVE SortScores(_)
SortScores(list) ==
    IF list = <<>> THEN <<>>
    ELSE InsertScore(SortScores(SubSeq(list, 1, Len(list) - 1)), list[Len(list)])

\* JSON.parse(localStorage.getItem(key)) || []
ParsedItem(key) == IF key \in DOMAIN localStorage THEN localStorage[key] ELSE <<>>

\* localStorage.setItem(key, JSON.stringify(value))
SetItem(key, value) ==
    [k \in DOMAIN localStorage \cup {key} |-> IF k = key THEN value ELSE localStorage[k]]

\* The record saveScore builds; its region is `${this.continent} - ${region}`
NewScore(name, mv, time, diff, reg, playerCountry) ==
    [name |-> name, moves |-> mv, time |-> time, difficulty |-> diff,
     region |-> <<continent, reg>>, playerCountry |-> playerCountry]

\* saveScore(name, moves, time, difficulty, region, playerCountry)
SaveScore(name, mv, time, diff, reg, playerCountry) ==
    /\ BagCardinality(submitted) < MaxSubmits
    /\ LET newScore == NewScore(name, mv, time, diff, reg, playerCountry)
           highScores == SortScores(Append(ParsedItem("highScores"), newScore))
       IN /\ localStorage' = SetItem("highScores", Slice(highScores, TopN))
          /\ submitted' = submitted (+) SetToBag({newScore})
          /\ insertAttempt' = "none"

\* saveScore called with the values of a finished game
ScoreSubmitted(mv, elapsed) ==
    /\ SaveScore("p", mv, FormatTime(elapsed), difficulty, region, "")
    /\ UNCHANGED <<settingVars, sessionVars, modalVars, deckVars, asyncVars, boundVars,
                   staleTimers, remoteScores, saveResult, serviceVars, wonSession>>

\* 'submit' of #name-form (the form of the win modal) with a non-empty name
NameFormSubmit(playerName, playerCountry) ==
    /\ modalShown
    /\ playerName # ""
    /\ SaveScore(playerName, moves, FormatTime(timeShown), difficulty, region,
                 playerCountry)
    /\ modalShown' = FALSE
    /\ UNCHANGED <<settingVars, sessionVars, modalFinal, deckVars, asyncVars, boundVars,
                   staleTimers, remoteScores, saveResult, serviceVars, wonSession>>

\* `highScores_${continent}`
ContinentScoresKey(c) == "highScores_" \o c

\* The list loadLocalScoresForContinent(continent) renders
LoadLocalScoresForContinent(c) == ParsedItem(ContinentScoresKey(c))

(***************************************************************************)
(* Remote score service (ScoreService.saveScore).                          *)
(***************************************************************************)
\* check_rate_limit: RETURN score_count < 5
RateLimit == 5

\* this.cacheExpiryTime
CacheExpiryTime == 5 * 60 * 1000

\* fetchGlobalScores(continent, difficulty, limit = 50)
QueryLimit == 50

\* The row saveScore inserts; created_at is the clock of the client
ScoreRecord(userId, scoreData, createdAt) ==
    [user_id |-> userId, name |-> scoreData.name, moves |-> scoreData.moves,
     time |-> scoreData.time, difficulty |-> scoreData.difficulty,
     region |-> scoreData.region, continent |-> scoreData.continent,
     created_at |-> createdAt]

\* check_rate_limit() for auth.uid() = uid: the rows of the user whose
\* created_at lies in the last hour of the server clock are fewer than 5
CheckRateLimit(uid) ==
    Cardinality({i \in DOMAIN remoteScores :
                    /\ remoteScores[i].user_id = uid
                    /\ remoteScores[i].created_at > now - Hour}) < RateLimit

\* `${continent}-${difficulty}`
CacheKey(c, d) == c \o "-" \o d

\* invalidateCache(continent, difficulty)
InvalidateCache(c, d) ==
    /\ globalScoresCache' =
          IF c # "" /\ d # ""
          THEN [k \in DOMAIN globalScoresCache \ {CacheKey(c, d)} |-> globalScoresCache[k]]
          ELSE <<>>
    /\ userScoresCache' = NoCache

\* saveScore(scoreData): initialized = the client exists, userId = id of
\* authService.getCurrentUser() or "none", outcome = how the request ends
\* unless the rate limit rejects it, skew = client clock minus server clock
ServiceSaveScore(initialized, userId, outcome, scoreData, skew) ==
    /\ insertAttempt' = IF initialized /\ userId # "none" THEN userId ELSE "none"
    /\ IF ~initialized
       THEN saveResult' = "null" /\ UNCHANGED <<remoteScores, acceptedAt, cacheVars>>
       ELSE IF userId = "none"
       THEN /\ saveResult' = "throws_unauthenticated"
            /\ UNCHANGED <<remoteScores, acceptedAt, cacheVars>>
       ELSE IF outcome = "inserted" /\ CheckRateLimit(userId)
       THEN /\ remoteScores' =
                  Append(remoteScores, ScoreRecord(userId, scoreData, now + skew))
            /\ acceptedAt' = Append(acceptedAt, now)
            /\ InvalidateCache(scoreData.continent, scoreData.difficulty)
            /\ saveResult' = "data"
       ELSE /\ saveResult' = "throws_insert_error"
            /\ UNCHANGED <<remoteScores, acceptedAt, cacheVars>>
    /\ UNCHANGED <<settingVars, sessionVars, modalVars, deckVars, asyncVars, boundVars,
                   staleTimers, localStorage, submitted, authVars, fetchVars, now,
                   pageVars, displayInits, otherVars, wonSession>>

\* The rows of the table with the given indices, in the order of the indices
RowsAt(idx) == [k \in DOMAIN idx |-> remoteScores[idx[k]]]

\* The orders in which the rows with indices in S can be listed
Orders(S) ==
    {idx \in [1..Cardinality(S) -> S] : \A a, b \in DOMAIN idx : a # b => idx[a] # idx[b]}

\* select ... eq(continent) eq(difficulty) order(moves) order(time) limit(limit):
\* every answer the remote can give (rows that tie come in any order)
GlobalQuery(c, d, limit) ==
    LET S == {i \in DOMAIN remoteScores :
                 remoteScores[i].continent = c /\ remoteScores[i].difficulty = d}
    IN {Slice(RowsAt(idx), limit) :
           idx \in {o \in Orders(S) :
                       \A k \in 1..(Len(o) - 1) :
                          CompareScores(remoteScores[o[k]], remoteScores[o[k + 1]]) <= 0}}

\* select * eq(user_id) order(created_at, descending)
UserQuery(uid) ==
    LET S == {i \in DOMAIN remoteScores : remoteScores[i].user_id = uid}
    IN {RowsAt(idx) :
           idx \in {o \in Orders(S) :
                       \A k \in 1..(Len(o) - 1) :
                          remoteScores[o[k]].created_at >= remoteScores[o[k + 1]].created_at}}

\* Mutant of CacheValid: an entry is still served when it is exactly
\* cacheExpiryTime old
CacheValidInclusive(entry) ==
    /\ entry # NoCache
    /\ entry.timestamp # 0
    /\ now - entry.timestamp <= CacheExpiryTime

\* cached && cached.timestamp && Date.now() - cached.timestamp < this.cacheExpiryTime
CacheValid(entry) ==
    /\ entry # NoCache
    /\ entry.timestamp # 0
    /\ now - entry.timestamp < CacheExpiryTime

\* History: the rows a read that starts now is owed
GlobalCount(c, d) ==
    Cardinality({i \in DOMAIN remoteScores :
                    remoteScores[i].continent = c /\ remoteScores[i].difficulty = d})
UserCount(uid) == Cardinality({i \in DOMAIN remoteScores : remoteScores[i].user_id = uid})

FetchFrame ==
    UNCHANGED <<settingVars, sessionVars, modalVars, deckVars, asyncVars, boundVars,
                staleTimers, scoreVars, authVars, now, acceptedAt, pageVars, displayInits,
                otherVars, wonSession>>

\* fetchGlobalScores(continent, difficulty) up to its await
FetchGlobalScores(initialized, c, d) ==
    /\ IF ~initialized
       THEN /\ fetchResult' = [kind |-> "global", user |-> "none", outcome |-> "uninitialized",
                               data |-> <<>>, startCount |-> GlobalCount(c, d)]
            /\ UNCHANGED <<fetches, cacheVars>>
       ELSE IF CacheKey(c, d) \in DOMAIN globalScoresCache
               /\ CacheValid(globalScoresCache[CacheKey(c, d)])
       THEN /\ fetchResult' = [kind |-> "global", user |-> "none", outcome |-> "cached",
                               data |-> globalScoresCache[CacheKey(c, d)].data,
                               startCount |-> GlobalCount(c, d)]
            /\ UNCHANGED <<fetches, cacheVars>>
       ELSE /\ Cardinality(fetches) < MaxFetches
            /\ fetches' = fetches \cup
                  {[kind |-> "global", continent |-> c, difficulty |-> d, user |-> "none",
                    startCount |-> GlobalCount(c, d), phase |-> "sent", data |-> <<>>]}
            /\ UNCHANGED <<fetchResult, cacheVars>>
    /\ FetchFrame

\* fetchUserScores(userId) up to its await; userId = the argument or the id of
\* authService.getCurrentUser(), "none" when both are missing
FetchUserScores(initialized, userId) ==
    /\ IF ~initialized
       THEN /\ fetchResult' = [kind |-> "user", user |-> userId, outcome |-> "uninitialized",
                               data |-> <<>>, startCount |-> UserCount(userId)]
            /\ UNCHANGED <<fetches, cacheVars>>
       ELSE IF userId = "none"
       THEN /\ fetchResult' = [kind |-> "user", user |-> userId, outcome |-> "throws",
                               data |-> <<>>, startCount |-> 0]
            /\ UNCHANGED <<fetches, cacheVars>>
       ELSE IF CacheValid(userScoresCache)
       THEN /\ fetchResult' = [kind |-> "user", user |-> userId, outcome |-> "cached",
                               data |-> userScoresCache.data,
                               startCount |-> UserCount(userId)]
            /\ UNCHANGED <<fetches, cacheVars>>
       ELSE /\ Cardinality(fetches) < MaxFetches
            /\ fetches' = fetches \cup
                  {[kind |-> "user", continent |-> "", difficulty |-> "", user |-> userId,
                    startCount |-> UserCount(userId), phase |-> "sent", data |-> <<>>]}
            /\ UNCHANGED <<fetchResult, cacheVars>>
    /\ FetchFrame

\* The remote answers a read that is in flight: with the rows it holds now, or
\* with an error
RemoteRead(f, ok) ==
    /\ f \in fetches
    /\ f.phase = "sent"
    /\ IF ok
       THEN \E d \in (IF f.kind = "global"
                      THEN GlobalQuery(f.continent, f.difficulty, QueryLimit)
                      ELSE UserQuery(f.user)) :
               fetches' = (fetches \ {f}) \cup {[f EXCEPT !.phase = "read", !.data = d]}
       ELSE fetches' = (fetches \ {f}) \cup {[f EXCEPT !.phase = "error"]}
    /\ UNCHANGED <<fetchResult, cacheVars>>
    /\ FetchFrame

\* The answer arrives: fetchGlobalScores/fetchUserScores after the await
FetchSettles(f) ==
    /\ f \in fetches
    /\ f.phase # "sent"
    /\ fetches' = fetches \ {f}
    /\ IF f.phase = "error"
       THEN /\ fetchResult' = [kind |-> f.kind, user |-> f.user, outcome |-> "throws", data |-> <<>>,
                               startCount |-> f.startCount]
            /\ UNCHANGED cacheVars
       ELSE /\ fetchResult' = [kind |-> f.kind, user |-> f.user, outcome |-> "fetched", data |-> f.data,
                               startCount |-> f.startCount]
            /\ IF f.kind = "global"
               THEN /\ globalScoresCache' =
                          [k \in DOMAIN globalScoresCache \cup
                                    {CacheKey(f.continent, f.difficulty)} |->
                              IF k = CacheKey(f.continent, f.difficulty)
                              THEN [data |-> f.data, timestamp |-> now]
                              ELSE globalScoresCache[k]]
                    /\ UNCHANGED userScoresCache
               ELSE /\ userScoresCache' = [data |-> f.data, timestamp |-> now]
                    /\ UNCHANGED globalScoresCache
    /\ FetchFrame

\* Time passes
AdvanceClock(step, limit) ==
    /\ now + step <= limit
    /\ now' = now + step
    /\ UNCHANGED <<settingVars, sessionVars, modalVars, deckVars, asyncVars, boundVars,
                   staleTimers, scoreVars, authVars, cacheVars, fetchVars, acceptedAt,
                   pageVars, displayInits, otherVars, wonSession>>

(***************************************************************************)
(* Authentication service (AuthService, two copies in the sources).        *)
(***************************************************************************)
\* The two copies of auth-service.js: 1 = first copy, 2 = second copy
Versions == {1, 2}

\* Users a stored session can belong to
SessionUsers == {"u1", "u2"}

\* How supabase.auth.getSession() ends: with the session of a user, with no
\* session, with an error result, or by throwing
SessionOutcomes == SessionUsers \cup {"no_session", "error", "exception"}

\* The callback the presence service registered (presence-service.js lines
\* 52-58), called once per registration by notifyAuthStateChange: it calls
\* setPresence(true) for a signed-in user and setPresence(false) otherwise,
\* and each call runs up to its import()
PresenceNotified(auth) ==
    presenceCalls' = presenceCalls \o
        [i \in 1..presenceListeners |-> [isOnline |-> auth, cleanup |-> FALSE]]

\* initializeSession() of copy version; client = the supabase client exists.
\* A session that is found is notified to every registered listener, and is
\* the session the requests of this browser carry from then on.
InitializeSession(version, client, outcome) ==
    /\ IF ~client
       THEN /\ authResult' = "null"
            /\ UNCHANGED <<currentUser, isAuthenticated, authNotified, displayInits,
                           presenceCalls, remoteUid>>
       ELSE IF outcome = "exception"
       THEN /\ authResult' = IF version = 1 THEN "null" ELSE "throws"
            /\ UNCHANGED <<currentUser, isAuthenticated, authNotified, displayInits,
                           presenceCalls, remoteUid>>
       ELSE IF outcome = "error"
       THEN /\ authResult' = "null"
            /\ UNCHANGED <<currentUser, isAuthenticated, authNotified, displayInits,
                           presenceCalls, remoteUid>>
       ELSE IF outcome \in SessionUsers
       THEN /\ currentUser' = outcome
            /\ isAuthenticated' = TRUE
            /\ remoteUid' = outcome
            /\ authNotified' = [user |-> outcome, isAuthenticated |-> TRUE,
                                listeners |-> authListeners]
            /\ displayInits' = displayInits + authListeners
            /\ PresenceNotified(TRUE)
            /\ authResult' = "session"
       ELSE /\ authResult' = "null"
            /\ UNCHANGED <<currentUser, isAuthenticated, authNotified, displayInits,
                           presenceCalls, remoteUid>>
    /\ UNCHANGED <<settingVars, sessionVars, modalVars, deckVars, asyncVars, boundVars,
                   staleTimers, scoreVars, cacheVars, fetchVars, now, acceptedAt, pageVars,
                   shuffleVars, presenceLocal, presenceRow, signOutResult, wonSession>>

\* How supabase.auth.signOut() ends: without error, with an error result, or
\* by throwing
SignOutOutcomes == {"ok", "error", "exception"}

\* The session the requests of this browser carry after
\* supabase.auth.signOut(): none when it ended without error; when it failed
\* the session may be gone or kept
SessionAfterSignOut(client, outcome) ==
    IF ~client THEN {remoteUid}
    ELSE IF outcome = "ok" THEN {"none"}
    ELSE {remoteUid, "none"}

\* signOut() of copy version; client = the supabase client exists.  The first
\* copy clears the local state whatever happens (it also removes the sb-*
\* token keys of the library from the storage, which hold no scores); the
\* second copy throws without a client and on an error or an exception.
\* The listeners are called after supabase.auth.signOut() has settled.
SignOut(version, client, outcome) ==
    /\ remoteUid' \in SessionAfterSignOut(client, outcome)
    /\ IF version = 2 /\ (~client \/ outcome # "ok")
       THEN /\ signOutResult' = "throws"
            /\ UNCHANGED <<currentUser, isAuthenticated, authNotified, displayInits,
                           presenceCalls>>
       ELSE /\ currentUser' = "none"
            /\ isAuthenticated' = FALSE
            /\ authNotified' = [user |-> "none", isAuthenticated |-> FALSE,
                                listeners |-> authListeners]
            /\ displayInits' = displayInits + authListeners
            /\ PresenceNotified(FALSE)
            /\ signOutResult' = "success"
    /\ UNCHANGED <<settingVars, sessionVars, modalVars, deckVars, asyncVars, boundVars,
                   staleTimers, scoreVars, cacheVars, fetchVars, now, acceptedAt, pageVars,
                   shuffleVars, presenceLocal, presenceRow, authResult, wonSession>>

(***************************************************************************)
(* The presence service (presence-service.js) and the rows of table        *)
(* presence under its row level security policy.                           *)
(***************************************************************************)
\* Everything of the program that the presence service leaves alone
PresenceFrame ==
    UNCHANGED <<settingVars, sessionVars, modalVars, deckVars, asyncVars, boundVars,
                staleTimers, scoreVars, authVars, cacheVars, fetchVars, now, acceptedAt,
                pageVars, displayInits, shuffleVars, wonSession>>

\* startHeartbeat(): the interval that is held is cleared, a new one is set
StartHeartbeat ==
    /\ heartbeats' = (IF heartbeatInterval THEN heartbeats - 1 ELSE heartbeats) + 1
    /\ heartbeatInterval' = TRUE

\* stopHeartbeat(): the interval that is held is cleared
StopHeartbeat ==
    /\ heartbeats' = IF heartbeatInterval THEN heartbeats - 1 ELSE heartbeats
    /\ heartbeatInterval' = FALSE

\* initialize() up to its await import(): nothing when the service is
\* initialized; otherwise a channel is created and subscribed and the
\* heartbeat is started
PresenceInitialize ==
    /\ presenceInits' = presenceInits + 1
    /\ IF isInitialized
       THEN UNCHANGED <<channel, subscriptions, heartbeatInterval, heartbeats, pendingInits>>
       ELSE /\ channel' = "live"
            /\ subscriptions' = subscriptions + 1
            /\ StartHeartbeat
            /\ pendingInits' = pendingInits + 1
    /\ UNCHANGED <<isInitialized, presenceListeners, presenceCalls, presenceRow, remoteUid>>
    /\ PresenceFrame

\* initialize() after its await import(): the auth listener is registered and
\* the service is marked initialized
PresenceInitializeResumes ==
    /\ pendingInits > 0
    /\ pendingInits' = pendingInits - 1
    /\ presenceListeners' = presenceListeners + 1
    /\ isInitialized' = TRUE
    /\ UNCHANGED <<channel, subscriptions, heartbeatInterval, heartbeats, presenceInits,
                   presenceCalls, presenceRow, remoteUid>>
    /\ PresenceFrame

\* The callback of the heartbeat interval: setPresence(true) when a user is
\* signed in
HeartbeatTick ==
    /\ heartbeats > 0
    /\ presenceCalls' = IF isAuthenticated
                        THEN Append(presenceCalls, [isOnline |-> TRUE, cleanup |-> FALSE])
                        ELSE presenceCalls
    /\ UNCHANGED <<presenceLocal, presenceRow, remoteUid>>
    /\ PresenceFrame

\* The policy "Users can update their own presence" (FOR ALL, USING and WITH
\* CHECK auth.uid() = user_id): a comparison with NULL is not true
OwnPresence(uid, user_id) == uid # "none" /\ uid = user_id

\* upsert([{user_id, session_id, ...}], {onConflict: 'session_id'}): the row is
\* inserted, or the row of the session is updated, where the policy lets it
UpsertPresence(row, uid, user_id) ==
    IF row = "none"
    THEN IF OwnPresence(uid, user_id) THEN user_id ELSE row
    ELSE IF OwnPresence(uid, row) /\ OwnPresence(uid, user_id) THEN user_id ELSE row

\* delete().eq('session_id', this.sessionId): the row is deleted where the
\* policy shows it to the request; no error otherwise
DeletePresence(row, uid) ==
    IF row # "none" /\ OwnPresence(uid, row) THEN "none" ELSE row

\* setPresence(isOnline) after its await import(), for the oldest suspended
\* call: the user is read, the row is written or deleted, and cleanup() goes
\* on after the call it awaits (stopHeartbeat, removeChannel, isInitialized).
\* The remote store answers every request.
SetPresenceResumes ==
    /\ presenceCalls # <<>>
    /\ LET call == Head(presenceCalls)
       IN /\ presenceCalls' = Tail(presenceCalls)
          /\ presenceRow' =
                IF call.isOnline
                THEN IF currentUser = "none" THEN presenceRow
                     ELSE UpsertPresence(presenceRow, remoteUid, currentUser)
                ELSE DeletePresence(presenceRow, remoteUid)
          /\ IF call.cleanup
             THEN /\ StopHeartbeat
                  /\ channel' = IF channel = "null" THEN "null" ELSE "removed"
                  /\ subscriptions' = IF channel = "live" THEN subscriptions - 1
                                      ELSE subscriptions
                  /\ isInitialized' = FALSE
             ELSE UNCHANGED <<heartbeatInterval, heartbeats, channel, subscriptions,
                              isInitialized>>
    /\ UNCHANGED <<presenceListeners, pendingInits, presenceInits, remoteUid>>
    /\ PresenceFrame

\* cleanup() up to the setPresence(false) it awaits
Cleanup ==
    /\ presenceCalls' = Append(presenceCalls, [isOnline |-> FALSE, cleanup |-> TRUE])
    /\ UNCHANGED <<presenceLocal, presenceRow, remoteUid>>
    /\ PresenceFrame

(***************************************************************************)
(* The scores page (scores-display.js).                                    *)
(***************************************************************************)
\* const difficulties = ['easy', 'medium', 'hard']
PageDifficulties == <<"easy", "medium", "hard">>

\* <li class="loading-indicator">
LoadingItem == [source |-> "loading", row |-> <<>>]

\* scoreList.innerHTML = rows.map(create...ListItem).join('') when there are
\* rows; otherwise the list is hidden and keeps its content
Rendered(sh, c, source, rows) ==
    IF rows # <<>>
    THEN [sh EXCEPT ![c] = [visible |-> TRUE,
                            items |-> [i \in DOMAIN rows |->
                                          [source |-> source, row |-> rows[i]]]]]
    ELSE [sh EXCEPT ![c].visible = FALSE]

\* loadLocalScoresForContinent(continent)
RenderedLocal(sh, c) == Rendered(sh, c, "local", LoadLocalScoresForContinent(c))

ShowLoadingIndicator(sh, c) == [sh EXCEPT ![c] = [visible |-> TRUE, items |-> <<LoadingItem>>]]

HideLoadingIndicator(sh, c) ==
    IF \E i \in DOMAIN sh[c].items : sh[c].items[i] = LoadingItem
    THEN [sh EXCEPT ![c].items = <<>>]
    ELSE sh

ShowLoginPromptForGlobalScores(sh, c) == [sh EXCEPT ![c].visible = FALSE]

\* loadScoresForContinent(continent) up to the first remote read, with
\* currentScoreType = type
LoadScoresForContinent(c, type) ==
    IF ~isAuthenticated
    THEN /\ shown' = IF type = "global"
                     THEN ShowLoginPromptForGlobalScores(shown, c)
                     ELSE RenderedLocal(shown, c)
         /\ UNCHANGED loads
    ELSE /\ Cardinality(loads) < MaxLoads
         /\ IF type = "global"
            THEN /\ shown' = ShowLoadingIndicator(shown, c)
                 /\ loads' = loads \cup {[continent |-> c, kind |-> "global",
                                          remaining |-> PageDifficulties,
                                          allScores |-> <<>>]}
            ELSE /\ loads' = loads \cup {[continent |-> c, kind |-> "personal",
                                          remaining |-> <<>>, allScores |-> <<>>]}
                 /\ UNCHANGED shown

PageFrame ==
    UNCHANGED <<settingVars, sessionVars, modalVars, deckVars, asyncVars, boundVars,
                staleTimers, scoreVars, authVars, fetchVars, now, acceptedAt, otherVars,
                wonSession>>

\* initializeScoreDisplay(): loads the africa tab
InitializeScoreDisplay == LoadScoresForContinent("africa", currentScoreType)

\* The DOMContentLoaded handler of the scores page
PageLoaded ==
    /\ authListeners = 0
    /\ InitializeScoreDisplay
    /\ authListeners' = 1
    /\ UNCHANGED <<currentScoreType, activeContinent, displayInits, cacheVars>>
    /\ PageFrame

\* The callback the page registered with authService.onAuthStateChange
AuthCallback ==
    /\ displayInits > 0
    /\ displayInits' = displayInits - 1
    /\ InitializeScoreDisplay
    /\ UNCHANGED <<currentScoreType, activeContinent, authListeners, cacheVars>>
    /\ PageFrame

\* Click on the global or the personal button
ToggleScoreType(type) ==
    /\ authListeners > 0
    /\ currentScoreType' = type
    /\ LoadScoresForContinent(activeContinent, type)
    /\ UNCHANGED <<activeContinent, authListeners, displayInits, cacheVars>>
    /\ PageFrame

\* Click on a continent tab
TabClick(c) ==
    /\ authListeners > 0
    /\ activeContinent' = c
    /\ LoadScoresForContinent(c, currentScoreType)
    /\ UNCHANGED <<currentScoreType, authListeners, displayInits, cacheVars>>
    /\ PageFrame

\* The rows of rows whose continent is c
RECURSIVE OfPageContinent(_, _)
OfPageContinent(rows, c) ==
    IF rows = <<>> THEN <<>>
    ELSE IF Head(rows).continent = c
         THEN <<Head(rows)>> \o OfPageContinent(Tail(rows), c)
         ELSE OfPageContinent(Tail(rows), c)

\* loadGlobalScoresForContinent: the next await of a load l that is in flight
\* returns.  outcome = "import_fails" (the import of the score service fails),
\* "error" (fetchGlobalScores throws) or "ok"; the call of fetchGlobalScores
\* is taken as one step, from its cache check to its return.
LoadGlobalStep(l, outcome) ==
    /\ l \in loads
    /\ l.kind = "global"
    /\ IF outcome = "import_fails"
       THEN /\ l.remaining = PageDifficulties
            /\ loads' = loads \ {l}
            /\ shown' = RenderedLocal(HideLoadingIndicator(shown, l.continent), l.continent)
            /\ UNCHANGED cacheVars
       ELSE LET key == CacheKey(l.continent, Head(l.remaining))
                hit == key \in DOMAIN globalScoresCache /\ CacheValid(globalScoresCache[key])
            IN \E data \in (IF outcome = "error" THEN {<<>>}
                            ELSE IF hit THEN {globalScoresCache[key].data}
                            ELSE GlobalQuery(l.continent, Head(l.remaining), QueryLimit)) :
                  /\ IF outcome = "error" \/ hit
                     THEN UNCHANGED cacheVars
                     ELSE /\ globalScoresCache' =
                                [k \in DOMAIN globalScoresCache \cup {key} |->
                                    IF k = key THEN [data |-> data, timestamp |-> now]
                                    ELSE globalScoresCache[k]]
                          /\ UNCHANGED userScoresCache
                  /\ IF Len(l.remaining) = 1
                     THEN /\ loads' = loads \ {l}
                          /\ shown' = HideLoadingIndicator(
                                          Rendered(shown, l.continent, "global",
                                                   SortScores(l.allScores \o data)),
                                          l.continent)
                     ELSE /\ loads' = (loads \ {l}) \cup
                                {[l EXCEPT !.remaining = Tail(l.remaining),
                                           !.allScores = l.allScores \o data]}
                          /\ UNCHANGED shown
    /\ UNCHANGED <<currentScoreType, activeContinent, authListeners, displayInits>>
    /\ PageFrame

\* loadPersonalScoresForContinent: fetchUserScores() of a load l that is in
\* flight returns (ok) or throws; the call of fetchUserScores is taken as one
\* step, from its cache check to its return.
LoadPersonalSettles(l, ok) ==
    /\ l \in loads
    /\ l.kind = "personal"
    /\ loads' = loads \ {l}
    /\ IF ~ok \/ currentUser = "none"
       THEN /\ shown' = RenderedLocal(shown, l.continent)
            /\ UNCHANGED cacheVars
       ELSE \E data \in (IF CacheValid(userScoresCache) THEN {userScoresCache.data}
                         ELSE UserQuery(currentUser)) :
               /\ IF CacheValid(userScoresCache)
                  THEN UNCHANGED cacheVars
                  ELSE /\ userScoresCache' = [data |-> data, timestamp |-> now]
                       /\ UNCHANGED globalScoresCache
               /\ shown' = Rendered(shown, l.continent, "personal",
                                    SortScores(OfPageContinent(data, l.continent)))
    /\ UNCHANGED <<currentScoreType, activeContinent, authListeners, displayInits>>
    /\ PageFrame

(***************************************************************************)
(* Specifications.                                                         *)
(***************************************************************************)
\* Values offered by the selectors in the session specification
GameContinents == {"africa", "asia"}
GameDifficulties == {"easy", "medium"}
AllRegionKeys == UNION {RegionKeys(c) : c \in Continents}

\* The game session: the page after construction, driven by clicks, selector
\* changes, timer callbacks and fetch completions in any order.
Next ==
    \/ \E index \in 1..Len(board) : FlipCard(index)
    \/ CheckMatch
    \/ WinFetchSettles
    \/ CloseModal
    \/ NameFormSubmit("p", "")
    \/ Tick
    \/ \E value \in GameDifficulties : DifficultyChange(value)
    \/ \E value \in {"all"} \cup AllRegionKeys : RegionChange(value)
    \/ \E value \in GameContinents : ContinentChange(value)
    \/ \E ok \in BOOLEAN : RegionFetchSettles(ok)
    \/ NewGame
    \/ RestartGame(random)
    \/ \E g \in 1..Len(gens), ok \in BOOLEAN : GetFlagsSettles(g, ok, random, random)
    \/ \E g \in 1..Len(gens), ok \in BOOLEAN :
           AdditionalSettles(g, ok, random, random, random)

Spec == Init /\ [][Next]_vars

\* The game session with its timers: a timeout that was set fires.
SpecLive == Spec /\ WF_vars(CheckMatch)

\* The card generator alone: one generateCards call per behaviour, for every
\* continent, region selection and difficulty, every random value chosen
\* independently per shuffleArray call, with no other handler interleaved.
InitGen ==
    /\ NothingShuffled
    /\ continent \in Continents
    /\ difficulty \in Difficulties
    /\ region \in {"all"} \cup RegionKeys(continent)
    /\ regionOptions = continent
    /\ Constructed
    /\ gens = <<NewGeneration(difficulty, continent)>>
    /\ regionFetches = <<>>
    /\ commands = 0
    /\ random = 0

NextGen ==
    \/ \E ok \in BOOLEAN, k1, k2 \in Streams : GetFlagsSettles(1, ok, k1, k2)
    \/ \E ok \in BOOLEAN, k1, k2, k3 \in Streams : AdditionalSettles(1, ok, k3, k1, k2)

SpecGen == InitGen /\ [][NextGen]_vars

\* Inputs of the score layer: <<moves, elapsed seconds>> of a finished game
ScoreInputs == {<<6, 5999>>, <<6, 6000>>, <<7, 59>>}

\* The local score list: scores are submitted from the win form while the
\* player may move to another continent.
InitScores == Init /\ random = 0

NextScores ==
    \/ \E in \in ScoreInputs : ScoreSubmitted(in[1], in[2])
    \/ \E value \in GameContinents : ContinentChange(value)
    \/ \E ok \in BOOLEAN : RegionFetchSettles(ok)

SpecScores == InitScores /\ [][NextScores]_vars

\* The remote score service alone, for every client state, user and outcome
\* of the insert.
UserIds == {"none", "u1", "u2"}
InsertOutcomes == {"inserted", "network", "validation"}
ScoreDatas ==
    {[name |-> "p", moves |-> in[1], time |-> FormatTime(in[2]), difficulty |-> "easy",
      region |-> "all", continent |-> c] : in \in ScoreInputs, c \in GameContinents}

NextService ==
    \E initialized \in BOOLEAN, userId \in UserIds, outcome \in InsertOutcomes,
       scoreData \in ScoreDatas :
        /\ Len(remoteScores) < MaxRemote
        /\ ServiceSaveScore(initialized, userId, outcome, scoreData, 0)

SpecService == InitScores /\ [][NextService]_vars

\* A player's account and scores: the session is initialised (by either copy of
\* the auth service) and finished games are submitted.
NextAccount ==
    \/ \E version \in Versions, client \in BOOLEAN, outcome \in SessionOutcomes :
           InitializeSession(version, client, outcome)
    \/ \E in \in ScoreInputs : ScoreSubmitted(in[1], in[2])

SpecAccount == InitScores /\ [][NextAccount]_vars

\* The score service with its caches: scores are saved and read by signed-in
\* users while reads are in flight and time passes.
CacheUsers == {"u1"}
CacheDatas ==
    {[name |-> "p", moves |-> 6, time |-> FormatTime(59), difficulty |-> "easy",
      region |-> "all", continent |-> c] : c \in GameContinents}
CacheClockStep == CacheExpiryTime \div 2
CacheClockMax == ClockStart + CacheExpiryTime

NextCache ==
    \/ \E userId \in CacheUsers, outcome \in InsertOutcomes, scoreData \in CacheDatas :
           /\ Len(remoteScores) < MaxRemote
           /\ ServiceSaveScore(TRUE, userId, outcome, scoreData, 0)
    \/ \E initialized \in BOOLEAN, c \in GameContinents : FetchGlobalScores(initialized, c, "easy")
    \/ \E initialized \in BOOLEAN, userId \in CacheUsers \cup {"none"} :
           FetchUserScores(initialized, userId)
    \/ \E f \in fetches, ok \in BOOLEAN : RemoteRead(f, ok)
    \/ \E f \in fetches : FetchSettles(f)
    \/ AdvanceClock(CacheClockStep, CacheClockMax)

SpecCache == InitScores /\ [][NextCache]_vars

\* The rate limit of the remote table: one user saves scores, with a client
\* clock that is right or two hours behind, while time passes.
Skews == {0, 0 - 2 * Hour}
RateData ==
    [name |-> "p", moves |-> 6, time |-> FormatTime(59), difficulty |-> "easy",
     region |-> "all", continent |-> "africa"]
RateClockStep == Hour \div 2
RateClockMax == ClockStart + Hour

NextRate ==
    \/ \E skew \in Skews :
           /\ Len(remoteScores) < MaxRateRows
           /\ ServiceSaveScore(TRUE, "u1", "inserted", RateData, skew)
    \/ AdvanceClock(RateClockStep, RateClockMax)

SpecRate == InitScores /\ [][NextRate]_vars

\* shuffleArray on its own: a caller holds an array and calls shuffleArray
\* once, with any results of Math.random().
ShuffleElements == {"DZ", "EG", "KE"}
ShuffleInputs == UNION {[1..n -> ShuffleElements] : n \in 0..MaxShuffleLen}
ShuffleStreams == [1..MaxShuffleLen -> 0..(RandDen - 1)]

InitShuffle ==
    /\ continent = "africa"
    /\ difficulty = "easy"
    /\ region = "all"
    /\ regionOptions = "none"
    /\ Constructed
    /\ gens = <<>>
    /\ regionFetches = <<>>
    /\ commands = 0
    /\ random = 0
    /\ arrays \in {[a \in {"array", "shuffled"} |-> IF a = "array" THEN in ELSE <<>>] :
                     in \in ShuffleInputs}
    /\ shuffleInput = arrays["array"]
    /\ shuffleRet = "none"

\* shuffleArray(array) with rnd as the results of Math.random()
ShuffleCall(rnd) ==
    /\ shuffleRet = "none"
    /\ LET target == ShuffleTarget("array", "shuffled")
       IN /\ arrays' = [arrays EXCEPT ![target] = ShuffleArray(arrays["array"], rnd)]
          /\ shuffleRet' = target
    /\ UNCHANGED <<settingVars, sessionVars, modalVars, deckVars, asyncVars, boundVars,
                   staleTimers, scoreVars, authVars, cacheVars, fetchVars, now, acceptedAt,
                   pageVars, displayInits, shuffleInput, presenceVars, wonSession>>

NextShuffle == \E rnd \in ShuffleStreams : ShuffleCall(rnd)

SpecShuffle == InitShuffle /\ [][NextShuffle]_vars

\* The cache of personal scores across accounts: users sign in and out of one
\* browser, save scores and read personal scores, their own or those of a
\* user id that is passed in.
NextUserCache ==
    \/ \E version \in Versions, outcome \in SessionUsers :
           InitializeSession(version, TRUE, outcome)
    \/ \E version \in Versions, outcome \in SignOutOutcomes :
           SignOut(version, TRUE, outcome)
    \/ \E scoreData \in CacheDatas :
           /\ isAuthenticated
           /\ Len(remoteScores) < MaxRemote
           /\ ServiceSaveScore(TRUE, currentUser, "inserted", scoreData, 0)
    \/ \E userId \in SessionUsers \cup {"none"} :
           FetchUserScores(TRUE, IF userId = "none" THEN currentUser ELSE userId)
    \/ \E f \in fetches, ok \in BOOLEAN : RemoteRead(f, ok)
    \/ \E f \in fetches : FetchSettles(f)

SpecUserCache == InitScores /\ [][NextUserCache]_vars

\* The scores page: a visitor whose session may be restored switches the score
\* type and the tab while loads are in flight and scores are saved.
ScoreTypes == {"personal", "global"}
PageOutcomes == {"ok", "error", "import_fails"}
PageSessions == {"u1", "error"}
PageDatas == {RateData}

NextPage ==
    \/ PageLoaded
    \/ \E version \in Versions, outcome \in PageSessions :
           /\ displayInits < MaxCallbacks
           /\ InitializeSession(version, TRUE, outcome)
    \/ AuthCallback
    \/ \E type \in ScoreTypes : ToggleScoreType(type)
    \/ \E c \in PageContinents : TabClick(c)
    \/ \E l \in loads, outcome \in PageOutcomes : LoadGlobalStep(l, outcome)
    \/ \E l \in loads, ok \in BOOLEAN : LoadPersonalSettles(l, ok)
    \/ \E scoreData \in PageDatas :
           /\ isAuthenticated
           /\ Len(remoteScores) < MaxPageRows
           /\ ServiceSaveScore(TRUE, currentUser, "inserted", scoreData, 0)

SpecPage == InitScores /\ [][NextPage]_vars

\* Signing in and out on the scores page: the page subscribes to the auth
\* service, sessions are restored and ended by either copy of the service,
\* and the page reloads its list after every notification.
NextAuth ==
    \/ PageLoaded
    \/ \E version \in Versions, client \in BOOLEAN, outcome \in SessionOutcomes :
           /\ displayInits < MaxCallbacks
           /\ InitializeSession(version, client, outcome)
    \/ \E version \in Versions, client \in BOOLEAN, outcome \in SignOutOutcomes :
           /\ displayInits < MaxCallbacks
           /\ SignOut(version, client, outcome)
    \/ AuthCallback
    \/ \E l \in loads, ok \in BOOLEAN : LoadPersonalSettles(l, ok)

SpecAuth == InitScores /\ [][NextAuth]_vars

\* The presence service in one browser: pages initialize it, users sign in
\* and out, the heartbeat fires, and cleanup runs.
NextPresence ==
    \/ presenceInits < MaxInits /\ PresenceInitialize
    \/ PresenceInitializeResumes
    \/ Len(presenceCalls) < MaxPresenceCalls /\ HeartbeatTick
    \/ SetPresenceResumes
    \/ Len(presenceCalls) < MaxPresenceCalls /\ Cleanup
    \/ \E version \in Versions, outcome \in SessionOutcomes :
           /\ Len(presenceCalls) + presenceListeners <= MaxPresenceCalls
           /\ InitializeSession(version, TRUE, outcome)
    \/ \E version \in Versions, outcome \in SignOutOutcomes :
           /\ Len(presenceCalls) + presenceListeners <= MaxPresenceCalls
           /\ SignOut(version, TRUE, outcome)

SpecPresence == InitScores /\ [][NextPresence]_vars

\* Every suspended call goes on, and every request is answered
SpecPresenceLive ==
    SpecPresence /\ WF_vars(SetPresenceResumes) /\ WF_vars(PresenceInitializeResumes)

(***************************************************************************)
(* Properties of the card generator, checked under SpecGen.                *)
(***************************************************************************)
Range(s) == {s[i] : i \in DOMAIN s}
Count(deck, x) == Cardinality({i \in DOMAIN deck : deck[i] = x})

\* The flags the data source holds for a region selection, read off the document
RegionSet(c, reg) ==
    UNION {Range(FlagData[c][i].flags) :
               i \in {n \in 1..Len(FlagData[c]) : reg = "all" \/ FlagData[c][n].key = reg}}
OtherSet(c, reg) ==
    UNION {Range(FlagData[c][i].flags) :
               i \in {n \in 1..Len(FlagData[c]) : FlagData[c][n].key # reg}}

\* generateCards has returned and every fetch it issued delivered the document
Generated ==
    lastGen.built /\ lastGen.fetched /\ (lastGen.notified => lastGen.readOthers)

C2_RegionFlagsKept ==
    LET own == RegionSet(continent, region)
        r == Cardinality(own)
        pairs == Pairs(difficulty)
    IN (/\ Generated /\ region # "all" /\ r < pairs
        /\ Cardinality(OtherSet(continent, region)) >= pairs - r)
           => /\ own \subseteq Range(cards)
              /\ Cardinality(Range(cards) \ own) = pairs - r

CheckMatchStep == timers' = timers - 1
\* A step in which resetGame ran
ResetStep == commands' # commands \/ Len(regionFetches') < Len(regionFetches)

\* C4 (as claimed): matchedPairs changes only by +1 in a match check or to 0 in
\* a reset, never exceeds pairs of the selected difficulty, and gameWon fires
\* exactly in the step in which matchedPairs reaches pairs.
C4_MatchedPairsBounded ==
    /\ [](matchedPairs <= Pairs(difficulty))
    /\ [][/\ matchedPairs' # matchedPairs =>
                 \/ CheckMatchStep /\ matchedPairs' = matchedPairs + 1
                 \/ ResetStep /\ matchedPairs' = 0
          /\ winFetches' > winFetches <=>
                 (matchedPairs' # matchedPairs /\ matchedPairs' = Pairs(difficulty))]_vars

\* C5 (as claimed): a session whose deck has fewer pairs than the difficulty
\* names is won once every card of the deck was matched in it.
C5_ShortDeckIsWon ==
    (/\ Generated /\ gens = <<>> /\ board # <<>>
     /\ Cardinality(RegionSet(continent, "all")) < Pairs(difficulty)
     /\ Len(board) < 2 * Pairs(difficulty)
     /\ sessionMatched = DOMAIN board
     /\ \A i \in DOMAIN board : board[i].matched) => won

\* C6: a match check on two pending cards compares their countries: equal
\* marks both cards matched and adds exactly one to matchedPairs, different
\* turns both face-down and leaves matchedPairs; either way the pending set is
\* empty afterwards and moves is unchanged.
C6_CheckMatchEffect ==
    [][(CheckMatchStep /\ Len(flippedCards) = 2) =>
          LET pending == {flippedCards[1], flippedCards[2]}
              onBoard == {c \in pending : c.attached}
          IN /\ flippedCards' = <<>>
             /\ moves' = moves
             /\ IF flippedCards[1].country = flippedCards[2].country
                THEN /\ matchedPairs' = matchedPairs + 1
                     /\ \A c \in onBoard : board'[c.index].matched
                ELSE /\ matchedPairs' = matchedPairs
                     /\ \A c \in onBoard : /\ ~board'[c.index].flipped
                                           /\ ~board'[c.index].matched]_vars

\* C6 witness: one attempt failed, one matched, both checks have run
C6_Witness ==
    /\ moves = 2 /\ matchedPairs = 1 /\ flippedCards = <<>> /\ timers = 0
    /\ Cardinality(sessionMatched) = 2
    /\ \A i \in DOMAIN board : board[i].flipped => board[i].matched

\* C7: a click on a card while two cards are pending, or on a card that is
\* face-up or matched, changes nothing; and the match check that ends the
\* pending window turns no card face-up (a rejected click is not replayed).
C7_RejectedFlipIsNoOp ==
    [][/\ \/ UNCHANGED vars
          \/ \A i \in 1..Len(board) :
                 (/\ (Len(flippedCards) >= 2 \/ board[i].flipped \/ board[i].matched)
                  /\ FlipCard(i))
                     => UNCHANGED vars
       /\ CheckMatchStep =>
              /\ flippedCards' \in {<<>>, flippedCards}
              /\ moves' = moves /\ gameStarted' = gameStarted
              /\ \A i \in DOMAIN board : board'[i].flipped => board[i].flipped]_vars

\* C7 witness: two cards pending, their check not yet run, face-down cards left
C7_Witness ==
    /\ Len(flippedCards) = 2 /\ timers = 1 /\ FaceDown # {}
    /\ flippedCards[1].attached /\ flippedCards[2].attached

\* C8: moves grows only by one and only in the step that turns the second card
\* of an attempt face-up (which also schedules the check); that step always
\* counts; a match check never changes moves; moves shrinks only to 0 in a reset.
C8_MovesCountAttempts ==
    [][/\ moves' > moves =>
              /\ moves' = moves + 1
              /\ Len(flippedCards) = 1 /\ Len(flippedCards') = 2
              /\ timers' = timers + 1
       /\ (Len(flippedCards) = 1 /\ Len(flippedCards') = 2) => moves' = moves + 1
       /\ CheckMatchStep => moves' = moves
       /\ moves' < moves => ResetStep /\ moves' = 0]_vars

\* C8 witness: the second card of a later attempt is up, counted, and unchecked
C8_Witness ==
    /\ Len(flippedCards) = 2 /\ timers = 1 /\ moves = matchedPairs + 1 /\ moves >= 2

\* C9 (as claimed): a card matched in the current session stays matched until
\* the next restart or new game.
C9_MatchedNeverReverts ==
    \A i \in sessionMatched : i \in DOMAIN board /\ board[i].matched

\* C10: flippedCards never holds more than two cards.
C10_AtMostTwoPending == Len(flippedCards) \in {0, 1, 2}

\* C10 witness: two cards pending after a restart or new game, one of them
\* flipped on the board that was replaced since
C10_Witness ==
    /\ Len(flippedCards) = 2 /\ commands > 0
    /\ ~flippedCards[1].attached /\ flippedCards[2].attached

\* C11 (as claimed): a match check scheduled before the last reset changes
\* neither matchedPairs nor the pending set nor any card, and checkMatch never
\* runs on fewer than two pending cards.
C11_StaleCheckInert ==
    [][CheckMatchStep =>
          /\ staleTimers > 0 => UNCHANGED <<matchedPairs, flippedCards, board>>
          /\ Len(flippedCards) = 2]_vars

\* C12 (as claimed): once no generation is in flight, the installed deck is the
\* one generated for the selected continent, region and difficulty.
C12_LatestGenerationWins ==
    (gens = <<>> /\ regionFetches = <<>> /\ Generated)
        => /\ lastGen.pairs = Pairs(difficulty)
           /\ lastGen.own = GetFlags(continent, region)

\* C13 (as claimed): restart keeps the multiset of the deck, re-renders it,
\* resets the counters and issues no fetch.
C13_RestartKeepsDeck ==
    [][RestartGame(random) =>
          /\ gens' = gens
          /\ \A x \in Range(cards) \cup Range(cards') : Count(cards', x) = Count(cards, x)
          /\ board' = RenderGameBoard(cards')
          /\ moves' = 0 /\ matchedPairs' = 0 /\ flippedCards' = <<>>
          /\ timeShown' = 0]_vars

\* C14 (as claimed): when the only generation in flight installs its deck, the
\* session is idle and every card is face-down.
C14_FreshAfterInstall ==
    [][(Len(gens) = 1 /\ gens' = <<>> /\ regionFetches = <<>>) =>
          /\ moves' = 0 /\ matchedPairs' = 0 /\ flippedCards' = <<>>
          /\ ~timer' /\ timeShown' = 0 /\ ~gameStarted' /\ ~modalShown'
          /\ \A i \in DOMAIN board' : ~board'[i].flipped /\ ~board'[i].matched]_vars

\* C15: the step in which the session becomes won stops the clock and writes
\* the session's moves and displayed time into the win modal; while the session
\* stays won the displayed time and those two fields do not change and the
\* clock stays stopped, and opening the modal does not change them.
C15_ClockStopsAtWin ==
    [][/\ (~won /\ won') =>
              /\ ~timer' /\ moves' = moves /\ timeShown' = timeShown
              /\ modalFinal' = <<moves, timeShown>>
       /\ (won /\ won') =>
              /\ ~timer' /\ timeShown' = timeShown /\ modalFinal' = modalFinal
       /\ (~modalShown /\ modalShown') => modalFinal' = modalFinal]_vars

\* C15 witness: the modal of a won session is open, showing the moves and the
\* time of the last match, after the clock had advanced
C15_Witness ==
    /\ won /\ modalShown /\ timeShown = 1 /\ moves >= Pairs(difficulty)
    /\ modalFinal = <<moves, timeShown>>

(***************************************************************************)
(* Further properties of the card generator, checked under SpecGen.        *)
(***************************************************************************)
\* C16 (as claimed): when the whole continent holds c < pairs(difficulty)
\* flags, the deck has exactly 2 x c cards and each of the c flags is on exactly
\* two of them, for a specific region and for 'all'.
C16_ShortContinentDeck ==
    LET all == RegionSet(continent, "all")
    IN (Generated /\ Cardinality(all) < Pairs(difficulty))
           => /\ Len(cards) = 2 * Cardinality(all)
              /\ \A x \in all : Count(cards, x) = 2

(***************************************************************************)
(* Further properties of the game session, checked under Spec.             *)
(***************************************************************************)
\* C17 (as claimed): a generation in which a fetch of the flag data failed
\* installs the empty deck; and with the empty deck installed, until the next
\* reset no match or win occurs, no card is turned and checkMatch does not run
\* on fewer than two cards (which throws).
C17_FailedFetchEmptyDeck ==
    /\ []((lastGen.built /\ (~lastGen.fetched \/ (lastGen.notified /\ ~lastGen.readOthers)))
              => cards = <<>>)
    /\ [][(cards = <<>> /\ lastGen.built /\ ~ResetStep) =>
              /\ matchedPairs' = matchedPairs /\ won' = won
              /\ Len(flippedCards') <= Len(flippedCards)
              /\ CheckMatchStep => Len(flippedCards) = 2]_vars

(***************************************************************************)
(* Properties of the local score list, checked under SpecScores.           *)
(***************************************************************************)
\* The elapsed seconds a time text stands for: digits before ':' are minutes
RECURSIVE Number(_, _)
Number(digits, acc) ==
    IF digits = <<>> THEN acc ELSE Number(Tail(digits), 10 * acc + Head(digits))
ColonAt(text) == CHOOSE i \in DOMAIN text : text[i] = Colon
Seconds(text) ==
    60 * Number(SubSeq(text, 1, ColonAt(text) - 1), 0)
        + Number(SubSeq(text, ColonAt(text) + 1, Len(text)), 0)

\* a is at least as good as b: fewer moves, or equal moves and no more time
AsGood(a, b) ==
    a.moves < b.moves \/ (a.moves = b.moves /\ Seconds(a.time) <= Seconds(b.time))

SeqToBag(list) == [r \in Range(list) |-> Count(list, r)]

\* list holds the best TopN of the records of bag, best first
IsTopOf(list, bag) ==
    /\ Len(list) = Min(TopN, BagCardinality(bag))
    /\ \A i, j \in DOMAIN list : i < j => AsGood(list[i], list[j])
    /\ SeqToBag(list) \sqsubseteq bag
    /\ \A r \in BagToSet(bag (-) SeqToBag(list)) :
           \A i \in DOMAIN list : AsGood(list[i], r)

\* C18 (as claimed): the stored list has at most 10 entries, is sorted by
\* moves and then by elapsed time, and holds the 10 best records submitted.
C18_TopTenSorted == IsTopOf(ParsedItem("highScores"), submitted)

\* The records of a bag that were submitted for continent c
OfContinent(bag, c) ==
    LET S == {r \in BagToSet(bag) : r.region[1] = c}
    IN [r \in S |-> bag[r]]

\* C19 (as claimed): the list the scores page reads for a continent holds the
\* best 10 of the records submitted for that continent, and only those.
C19_PerContinentLists ==
    \A c \in Continents :
        IsTopOf(LoadLocalScoresForContinent(c), OfContinent(submitted, c))

(***************************************************************************)
(* Properties of the remote score service, checked under SpecService.      *)
(***************************************************************************)
\* Some list of the local store holds a record with the moves and time of scoreData
StoredLocally(scoreData) ==
    \E key \in DOMAIN localStorage : \E i \in DOMAIN localStorage[key] :
        /\ localStorage[key][i].moves = scoreData.moves
        /\ localStorage[key][i].time = scoreData.time

\* C20 (as claimed): when saveScore is called for an authenticated user and
\* the remote insert fails, the caller gets an error and the record is in the
\* local score list afterwards.
C20_RemoteFailureFallsBack ==
    [][\A userId \in UserIds \ {"none"}, outcome \in InsertOutcomes \ {"inserted"},
          scoreData \in ScoreDatas :
              ServiceSaveScore(TRUE, userId, outcome, scoreData, 0)
                  => saveResult' = "throws_insert_error" /\ StoredLocally(scoreData)']_vars

(***************************************************************************)
(* Properties of the board, the win modal and the win form, under Spec.    *)
(***************************************************************************)
\* C26 (as claimed): the country flipCard takes for board position i is the
\* country of the flag the element at position i displays.
C26_CardsMatchBoard ==
    /\ Len(cards) = Len(board)
    /\ \A i \in DOMAIN board : cards[i] = board[i].country

\* C27 (as claimed): twice matchedPairs is the number of matched cards on the
\* board.
C27_MatchedPairsCountsBoard ==
    2 * matchedPairs = Cardinality({i \in DOMAIN board : board[i].matched})

\* C28 (as claimed): the win modal is visible only in a session that was won.
C28_ModalOnlyWhenWon == modalShown => won

\* C29 (as claimed): the record the win form saves carries the moves, time,
\* difficulty, region and continent the session had when it was won.
C29_RecordOfWonSession ==
    [][NameFormSubmit("p", "") =>
          submitted' = submitted (+) SetToBag({
              [name |-> "p", moves |-> wonSession.moves,
               time |-> FormatTime(wonSession.time),
               difficulty |-> wonSession.difficulty,
               region |-> <<wonSession.continent, wonSession.region>>,
               playerCountry |-> ""]})]_vars

(***************************************************************************)
(* Progress of the match check, under SpecLive.                            *)
(***************************************************************************)
\* C30: whenever two cards are pending, the pending set is eventually empty
\* again (a pending timeout exists and checkMatch or a reset empties it).
C30_PendingPairResolves ==
    /\ [](Len(flippedCards) = 2 => timers > 0)
    /\ (Len(flippedCards) = 2) ~> (flippedCards = <<>>)

\* C30 witness: a pair flipped in a new session was resolved by the check that
\* an earlier session had scheduled, and the pair's own timeout is still pending
C30_Witness ==
    /\ flippedCards = <<>> /\ timers = 1 /\ staleTimers = 0 /\ moves = 1
    /\ commands > 0

(***************************************************************************)
(* Properties of the account layer, checked under SpecAccount.             *)
(***************************************************************************)
\* C21 (as claimed): submitting a finished game attempts a remote insert for
\* the authenticated user, and none when nobody is authenticated.
C21_RemoteInsertWhenAuthenticated ==
    [][\A in \in ScoreInputs :
          ScoreSubmitted(in[1], in[2])
              => insertAttempt' = IF isAuthenticated THEN currentUser ELSE "none"]_vars

\* C25 (as claimed): when getSession fails in initializeSession of an
\* unauthenticated service, the service stays unauthenticated and the call
\* returns null without throwing.
C25_SessionFailureIsGuest ==
    [][\A version \in Versions, outcome \in {"error", "exception"} :
          (currentUser = "none" /\ ~isAuthenticated
           /\ InitializeSession(version, TRUE, outcome))
              => currentUser' = "none" /\ ~isAuthenticated' /\ authResult' = "null"]_vars

(***************************************************************************)
(* Properties of the score service and the remote table.                   *)
(***************************************************************************)
\* C22 (as claimed): a read that starts after a score was saved returns the
\* rows of its partition (or of its user) that were saved before it started,
\* never rows read before that write: what fetchGlobalScores and
\* fetchUserScores return holds at least the rows that existed at the call.
C22_NoStaleReadAfterSave ==
    fetchResult.outcome \in {"cached", "fetched"}
        => Len(fetchResult.data) >= fetchResult.startCount

\* The rows of user uid that were accepted in the hour that ends with the
\* acceptance of row i
AcceptedInHourBefore(uid, i) ==
    {j \in DOMAIN remoteScores :
        /\ remoteScores[j].user_id = uid
        /\ acceptedAt[j] > acceptedAt[i] - Hour
        /\ acceptedAt[j] <= acceptedAt[i]}

\* C24 (as claimed): no user has more than 5 scores that were accepted within
\* one hour.
C24_AtMostFivePerHour ==
    \A i \in DOMAIN remoteScores :
        Cardinality(AcceptedInHourBefore(remoteScores[i].user_id, i)) <= RateLimit

(***************************************************************************)
(* Properties of the scores page, checked under SpecPage.                  *)
(***************************************************************************)
\* The sources of the records in the list of continent c
ShownSources(c) ==
    {shown[c].items[i].source : i \in DOMAIN shown[c].items} \ {"loading"}

\* The sources the score type and the authentication state select; the
\* local list is what the page falls back to
SelectedSources ==
    IF isAuthenticated
    THEN (IF currentScoreType = "global" THEN {"global", "local"} ELSE {"personal", "local"})
    ELSE (IF currentScoreType = "global" THEN {} ELSE {"local"})

\* C23 (as claimed): a visible score list holds records of one source only,
\* and once the loads of the active tab have finished that source is the one
\* the score type and the authentication state select (or the local fallback).
C23_OneSourceAsSelected ==
    \A c \in PageContinents :
        shown[c].visible =>
            /\ Cardinality(ShownSources(c)) <= 1
            /\ (c = activeContinent /\ loads = {} /\ displayInits = 0)
                   => ShownSources(c) \subseteq SelectedSources

(***************************************************************************)
(* Properties of the elapsed-time clock, checked under Spec.               *)
(***************************************************************************)
\* resetGame() runs in this step: a click on a button, a change of the
\* difficulty or the region, or the end of the fetch of the region selector
ResetGameStep ==
    \/ commands' # commands /\ regionFetches' = regionFetches
    \/ Len(regionFetches') < Len(regionFetches)

\* gameWon() is called in this step
GameWonStep == winFetches' = winFetches + 1

\* C31: at most one interval timer of startTimer is live; one is live only
\* in a session that has started and is not won; and none is live after a
\* reset or after a win.
C31_OneTimerWhilePlaying ==
    /\ [](/\ intervals <= 1
          /\ intervals > 0 => gameStarted /\ ~won)
    /\ [][(ResetGameStep \/ GameWonStep) => intervals' = 0]_vars

\* A timer runs in a session that was started after a reset
C31_Witness ==
    /\ intervals = 1
    /\ gameStarted
    /\ commands > 0
    /\ timeShown = 1

(***************************************************************************)
(* Properties of shuffleArray, checked under SpecShuffle.                  *)
(***************************************************************************)
\* C32: the array shuffleArray returns has the length and the multiset of
\* elements of its argument, and the argument is as it was before the call.
C32_ShuffleIsPermutation ==
    shuffleRet # "none" =>
        /\ Len(arrays[shuffleRet]) = Len(shuffleInput)
        /\ SeqToBag(arrays[shuffleRet]) = SeqToBag(shuffleInput)
        /\ arrays["array"] = shuffleInput

\* An array with a repeated element came back in another order
C32_Witness ==
    /\ shuffleRet # "none"
    /\ Len(shuffleInput) = MaxShuffleLen
    /\ Cardinality(Range(shuffleInput)) = 2
    /\ arrays[shuffleRet] # shuffleInput

(***************************************************************************)
(* Order of equal moves in the local list, checked under SpecScores.       *)
(***************************************************************************)
\* C33 (as claimed): of two records of the stored list with equal moves the
\* one with the smaller elapsed time comes first, whatever time the clock
\* displayed.
C33_EqualMovesByElapsedTime ==
    LET list == ParsedItem("highScores")
    IN \A i, j \in DOMAIN list :
          (i < j /\ list[i].moves = list[j].moves)
              => Seconds(list[i].time) <= Seconds(list[j].time)

(***************************************************************************)
(* Properties of the caches of the score service, under SpecCache.         *)
(***************************************************************************)
\* The cache holds an entry for continent c and difficulty d that was stored
\* less than five minutes ago
StoredRecently(c, d) ==
    /\ CacheKey(c, d) \in DOMAIN globalScoresCache
    /\ now - globalScoresCache[CacheKey(c, d)].timestamp < 5 * 60 * 1000

\* The remote read of continent c and difficulty d that a call starts
SentGlobal(c, d) ==
    {f \in fetches' \ fetches :
        f.kind = "global" /\ f.continent = c /\ f.difficulty = d /\ f.phase = "sent"}

\* C34: fetchGlobalScores returns the cached rows of its own key if they were
\* stored less than 5 minutes earlier and otherwise queries the remote store;
\* the answer of that query replaces the entry of the key, a failed query
\* leaves the cache as it is; and an entry holds rows of its own key only.
C34_CacheServedWhileFresh ==
    /\ [](\A k \in DOMAIN globalScoresCache :
             \A i \in DOMAIN globalScoresCache[k].data :
                CacheKey(globalScoresCache[k].data[i].continent,
                         globalScoresCache[k].data[i].difficulty) = k)
    /\ [][\A c \in GameContinents :
             FetchGlobalScores(TRUE, c, "easy") =>
                 IF StoredRecently(c, "easy")
                 THEN /\ fetchResult'.outcome = "cached"
                      /\ fetchResult'.data = globalScoresCache[CacheKey(c, "easy")].data
                      /\ fetches' = fetches
                      /\ UNCHANGED cacheVars
                 ELSE /\ SentGlobal(c, "easy") # {}
                      /\ UNCHANGED <<fetchResult, cacheVars>>]_vars
    /\ [][\A f \in fetches :
             (f.kind = "global" /\ FetchSettles(f)) =>
                 IF f.phase = "read"
                 THEN /\ globalScoresCache'[CacheKey(f.continent, f.difficulty)]
                            = [data |-> f.data, timestamp |-> now]
                      /\ fetchResult'.outcome = "fetched"
                      /\ fetchResult'.data = f.data
                 ELSE /\ UNCHANGED cacheVars
                      /\ fetchResult'.outcome = "throws"]_vars

\* A cached answer with a row was served half the expiry time after it was
\* stored, and the same key was queried again once the entry was five minutes old
C34_Witness ==
    /\ now = ClockStart + CacheExpiryTime
    /\ fetchResult.kind = "global"
    /\ fetchResult.outcome = "cached"
    /\ fetchResult.data # <<>>
    /\ \E f \in fetches :
          /\ f.kind = "global"
          /\ CacheKey(f.continent, f.difficulty) \in DOMAIN globalScoresCache
          /\ globalScoresCache[CacheKey(f.continent, f.difficulty)].timestamp = ClockStart

\* C35 (as claimed): the rows fetchUserScores returns for a user id, from the
\* cache or from the remote store, are rows of that user.
C35_UserScoresOfThatUser ==
    (fetchResult.kind = "user" /\ fetchResult.outcome \in {"cached", "fetched"})
        => \A i \in DOMAIN fetchResult.data :
              fetchResult.data[i].user_id = fetchResult.user

(***************************************************************************)
(* Properties of the auth service on the scores page, under SpecAuth.      *)
(***************************************************************************)
\* C36 (as claimed): every call of signOut leaves nobody signed in, calls
\* every subscribed listener with that state and resolves with success.
C36_SignOutAlwaysClears ==
    [][\A version \in Versions, client \in BOOLEAN, outcome \in SignOutOutcomes :
          SignOut(version, client, outcome)
              => /\ currentUser' = "none"
                 /\ ~isAuthenticated'
                 /\ authNotified' = [user |-> "none", isAuthenticated |-> FALSE,
                                     listeners |-> authListeners]
                 /\ signOutResult' = "success"]_vars

(***************************************************************************)
(* Properties of the presence service, under SpecPresence and              *)
(* SpecPresenceLive.                                                       *)
(***************************************************************************)
\* C37 (as claimed): however often initialize is called, the service holds at
\* most one channel subscription, one heartbeat interval and one auth-state
\* listener.
C37_InitializeAtMostOnce ==
    /\ subscriptions <= 1
    /\ heartbeats <= 1
    /\ presenceListeners <= 1

\* A user has signed out and nobody has signed in since
SignedOut == signOutResult = "success" /\ ~isAuthenticated

\* cleanup() has run to its end and initialize() has not run since
CleanedUp == channel = "removed" /\ ~isInitialized

\* C38 (as claimed): after a sign-out or a cleanup the presence row of this
\* browser session is eventually gone from table presence.
C38_PresenceEventuallyRemoved ==
    (SignedOut \/ CleanedUp) ~> (presenceRow = "none")

====
